---- MODULE Spec2Model ----
(***************************************************************************)
(* GLWebViewState (Source/WebCore/platform/graphics/android): the base     *)
(* layer update gate, the dirty-rectangle unions, the two tiled pages and  *)
(* the per-frame drawGL, as a state machine with one action per method.    *)
(* Collaborators (TiledPage, TilesManager, ZoomManager, BaseLayerAndroid,  *)
(* the shader) are represented by the calls made on them, recorded in the  *)
(* variable calls for the handler that ran last.                           *)
(***************************************************************************)
EXTENDS Integers, Sequences, FiniteSets, TLC

\* ------------------------------------------------------------------ bounds
\* Cap on m_currentPictureCounter (an unbounded unsigned int in the code).
MaxPictureCounter == 4
\* Number of calls made on the object in one behaviour.
MaxCalls == 4

\* ------------------------------------------------------- program constants
MIN_SCALE_WARNING_x100 == 10
MAX_SCALE_WARNING_x100 == 1000
TILE_PREFETCH_DISTANCE == 1
TILE_PREFETCH_RATIO_x10 == 12
LAYER_INFLATE == 8
INVAL_INFLATE == 1
TileWidth == 256
TileHeight == 256

\* ------------------------------------------------------------------ values
NULL == "null"
Layers == {"L1", "L2"}
Pages == {"A", "B"}
NoPicture == "nopicture"
Pictures == {"P1"}

\* BaseLayerAndroid::countChildren / getChild(0): L1 has no child layer,
\* L2 has one composited child.
countChildren(layer) == IF layer = "L2" THEN 1 ELSE 0
getChild0(layer) == IF layer = "L2" THEN "R2" ELSE NULL
Roots == {"R2"}

\* BaseLayerAndroid::content()->width() / height()
contentWidth(layer) == IF layer = "L1" THEN 100 ELSE 2000
contentHeight(layer) == IF layer = "L1" THEN 2000 ELSE 100
\* BaseLayerAndroid::getBackgroundColor()
getBackgroundColor(layer) == IF layer = "L1" THEN "white" ELSE "black"

\* ---------------------------------------------------------------- IntRect
R(x, y, w, h) == [x |-> x, y |-> y, w |-> w, h |-> h]
ZeroRect == R(0, 0, 0, 0)
isEmpty(r) == r.w <= 0 \/ r.h <= 0
maxX(r) == r.x + r.w
maxY(r) == r.y + r.h
Min(a, b) == IF a < b THEN a ELSE b
Max(a, b) == IF a > b THEN a ELSE b

\* IntRect::unite: an empty argument leaves the rectangle alone, an empty
\* receiver adopts the argument, otherwise the bounding rectangle.
unite(a, b) ==
    IF isEmpty(b) THEN a
    ELSE IF isEmpty(a) THEN b
    ELSE LET l == Min(a.x, b.x)
             t == Min(a.y, b.y)
             r == Max(maxX(a), maxX(b))
             bt == Max(maxY(a), maxY(b))
         IN R(l, t, r - l, bt - t)

\* IntRect::inflate
inflate(r, d) == R(r.x - d, r.y - d, r.w + 2 * d, r.h + 2 * d)

\* IntRect::intersects
intersects(a, b) ==
    /\ ~isEmpty(a)
    /\ ~isEmpty(b)
    /\ a.x < maxX(b)
    /\ b.x < maxX(a)
    /\ a.y < maxY(b)
    /\ b.y < maxY(a)

\* --------------------------------------------------------------- SkRegion
\* A region is the set of pixels <<x, y>> it covers.
Cells(r) ==
    IF isEmpty(r) THEN {}
    ELSE {<<i, j>> : i \in r.x .. (maxX(r) - 1), j \in r.y .. (maxY(r) - 1)}

\* SkRegion::op(left, top, right, bottom, kUnion_Op)
regionUnionRect(region, r) == region \cup Cells(r)

RowOf(region, y) == {c[1] : c \in {d \in region : d[2] = y}}
SetMin(S) == CHOOSE m \in S : \A n \in S : m <= n
SetMax(S) == CHOOSE m \in S : \A n \in S : m >= n

\* SkRegion::Iterator: the rectangles of the region's canonical form, bands
\* of rows with identical spans from top to bottom, the spans of a band from
\* left to right.
BandRects(region) ==
    IF region = {} THEN {}
    ELSE LET ys == {c[2] : c \in region}
             y1 == SetMax(ys)
             starts == {y \in ys : RowOf(region, y - 1) # RowOf(region, y)}
             bandEnd(y0) == SetMin({y \in (y0 + 1) .. (y1 + 1) :
                                      RowOf(region, y) # RowOf(region, y0)})
             spans(y0) ==
                 LET row == RowOf(region, y0)
                     x1 == SetMax(row)
                 IN {<<x0, SetMin({x \in (x0 + 1) .. (x1 + 1) : x \notin row})>> :
                        x0 \in {x \in row : (x - 1) \notin row}}
         IN UNION {{R(sp[1], y0, sp[2] - sp[1], bandEnd(y0) - y0) : sp \in spans(y0)} :
                      y0 \in starts}

RectBefore(a, b) == a.y < b.y \/ (a.y = b.y /\ a.x < b.x)

RECURSIVE SortRects(_)
SortRects(S) ==
    IF S = {} THEN <<>>
    ELSE LET first == CHOOSE a \in S : \A b \in S \ {a} : RectBefore(a, b)
         IN <<first>> \o SortRects(S \ {first})

regionRects(region) == SortRects(BandRects(region))

\* ------------------------------------------------------------------- state
VARIABLES
    m_baseLayer,             \* latest BaseLayerAndroid supplied, or NULL
    m_currentBaseLayer,      \* the one drawn, or NULL
    m_previouslyUsedRoot,    \* composited root of the last frame, or NULL
    m_currentPictureCounter,
    m_usePageA,
    m_frameworkInval,        \* union of base content invals
    m_frameworkLayersInval,  \* union of layer dirty areas
    m_baseLayerUpdate,       \* TRUE: updates allowed (unlocked)
    m_backgroundColor,
    m_displayRings,
    m_goingDown,
    m_goingLeft,
    m_expandedTileBoundsX,
    m_expandedTileBoundsY,
    m_viewport,              \* SkRect [l, t, r, b]
    m_viewportTileBounds,    \* SkIRect [l, t, r, b]
    m_invalidateRegion,      \* SkRegion deferred while locked
    m_lastInval,             \* last rectangle given to setExtra
    refCount,                \* references this object holds, per layer / root
    extra,                   \* BaseLayerAndroid::m_extra of each layer
    futureScale,             \* ZoomManager::futureScale(), x100
    maxTextureCount,         \* TilesManager's texture budget
    invertedScreenSwitch,    \* TilesManager::invertedScreenSwitch()
    outInvalRect,            \* the caller's *invalRect of drawGL
    crashed,                 \* CRASH() was reached
    calls,                   \* calls on collaborators made by the last handler
    last,                    \* the last handler run, its arguments and result
    deferred,                \* history: the non-empty rectangles given to inval
                             \* since m_invalidateRegion was last empty
    pc,                      \* where each thread is in the method it runs
    owner,                   \* the thread holding each mutex, or NULL
    local,                   \* the arguments and local variables of each thread
    evicting                 \* the pages swapPages is discarding the textures of

vars == <<m_baseLayer, m_currentBaseLayer, m_previouslyUsedRoot,
          m_currentPictureCounter, m_usePageA, m_frameworkInval,
          m_frameworkLayersInval, m_baseLayerUpdate, m_backgroundColor,
          m_displayRings, m_goingDown, m_goingLeft, m_expandedTileBoundsX,
          m_expandedTileBoundsY, m_viewport, m_viewportTileBounds,
          m_invalidateRegion, m_lastInval, refCount, extra, futureScale,
          maxTextureCount, invertedScreenSwitch, outInvalRect, crashed,
          calls, last, deferred, pc, owner, local, evicting>>

\* The object as one record, so that a method is a function from the object
\* before the call to the object after it.
This ==
    [m_baseLayer |-> m_baseLayer,
     m_currentBaseLayer |-> m_currentBaseLayer,
     m_previouslyUsedRoot |-> m_previouslyUsedRoot,
     m_currentPictureCounter |-> m_currentPictureCounter,
     m_usePageA |-> m_usePageA,
     m_frameworkInval |-> m_frameworkInval,
     m_frameworkLayersInval |-> m_frameworkLayersInval,
     m_baseLayerUpdate |-> m_baseLayerUpdate,
     m_backgroundColor |-> m_backgroundColor,
     m_displayRings |-> m_displayRings,
     m_goingDown |-> m_goingDown,
     m_goingLeft |-> m_goingLeft,
     m_expandedTileBoundsX |-> m_expandedTileBoundsX,
     m_expandedTileBoundsY |-> m_expandedTileBoundsY,
     m_viewport |-> m_viewport,
     m_viewportTileBounds |-> m_viewportTileBounds,
     m_invalidateRegion |-> m_invalidateRegion,
     m_lastInval |-> m_lastInval,
     refCount |-> refCount,
     extra |-> extra,
     futureScale |-> futureScale,
     maxTextureCount |-> maxTextureCount,
     invertedScreenSwitch |-> invertedScreenSwitch,
     outInvalRect |-> outInvalRect,
     crashed |-> crashed,
     calls |-> <<>>]

Becomes(s) ==
    /\ m_baseLayer' = s.m_baseLayer
    /\ m_currentBaseLayer' = s.m_currentBaseLayer
    /\ m_previouslyUsedRoot' = s.m_previouslyUsedRoot
    /\ m_currentPictureCounter' = s.m_currentPictureCounter
    /\ m_usePageA' = s.m_usePageA
    /\ m_frameworkInval' = s.m_frameworkInval
    /\ m_frameworkLayersInval' = s.m_frameworkLayersInval
    /\ m_baseLayerUpdate' = s.m_baseLayerUpdate
    /\ m_backgroundColor' = s.m_backgroundColor
    /\ m_displayRings' = s.m_displayRings
    /\ m_goingDown' = s.m_goingDown
    /\ m_goingLeft' = s.m_goingLeft
    /\ m_expandedTileBoundsX' = s.m_expandedTileBoundsX
    /\ m_expandedTileBoundsY' = s.m_expandedTileBoundsY
    /\ m_viewport' = s.m_viewport
    /\ m_viewportTileBounds' = s.m_viewportTileBounds
    /\ m_invalidateRegion' = s.m_invalidateRegion
    /\ m_lastInval' = s.m_lastInval
    /\ refCount' = s.refCount
    /\ extra' = s.extra
    /\ futureScale' = s.futureScale
    /\ maxTextureCount' = s.maxTextureCount
    /\ invertedScreenSwitch' = s.invertedScreenSwitch
    /\ outInvalRect' = s.outInvalRect
    /\ crashed' = s.crashed
    /\ calls' = s.calls

\* A call on a collaborator: fn on object `on`, with a rectangle, a number
\* and two object arguments where the call has them.
Call(fn, on, rect, n, a, b) ==
    [fn |-> fn, on |-> on, rect |-> rect, n |-> n, a |-> a, b |-> b]
Call0(fn, on) == Call(fn, on, ZeroRect, 0, NULL, NULL)
Did(s, c) == [s EXCEPT !.calls = Append(@, c)]

\* SkSafeRef / SkSafeUnref on the references this object holds
SkSafeRef(s, obj) ==
    IF obj = NULL THEN s
    ELSE Did([s EXCEPT !.refCount[obj] = @ + 1], Call0("ref", obj))
SkSafeUnref(s, obj) ==
    IF obj = NULL THEN s
    ELSE Did([s EXCEPT !.refCount[obj] = @ - 1], Call0("unref", obj))

SkRect(l, t, r, b) == [l |-> l, t |-> t, r |-> r, b |-> b]

\* What the caller's *invalRect holds before any drawGL wrote it.
UnwrittenRect == R(-1, -1, -1, -1)

\* The record of the last handler: its name, its arguments, what it
\* returned, what held when it was called (the gate locked, a region pending,
\* the rings displayed, the current layer, either dirty union non-empty), and
\* the number of calls made so
\* far (so that no call is a stuttering step).
NoCall ==
    [op |-> "none", layer |-> NULL, first |-> FALSE, rect |-> ZeroRect,
     allowSame |-> FALSE, region |-> {}, vp |-> SkRect(0, 0, 0, 0), scale |-> 0,
     ret |-> FALSE, locked |-> FALSE, pending |-> FALSE, rings |-> FALSE,
     cur |-> NULL, n |-> 0, clip |-> ZeroRect, drawRet |-> FALSE,
     dirty |-> ZeroRect, dirtyBase |-> FALSE, dirtyLayers |-> FALSE]
Called(op) ==
    [NoCall EXCEPT !.op = op, !.locked = ~m_baseLayerUpdate,
                   !.pending = (m_invalidateRegion # {}),
                   !.rings = m_displayRings, !.cur = m_currentBaseLayer,
                   !.dirtyBase = ~isEmpty(m_frameworkInval),
                   !.dirtyLayers = ~isEmpty(m_frameworkLayersInval),
                   !.n = last.n + 1]

\* The threads that call into the object: the one that delivers content
\* (setBaseLayer, setExtra, lock/unlockBaseLayerUpdate), the one that draws
\* (drawGL, swapPages), the one that rasterizes tiles (paintBaseLayerContent,
\* frontPage); and the three mutexes.
Threads == {"ui", "gl", "tex"}
Locks == {"m_baseLayerLock", "m_tiledPageLock", "m_globalButtonMutex"}

\* The arguments and locals of a thread outside any method.
NoLocal ==
    [layer |-> NULL, first |-> FALSE, region |-> {}, rect |-> ZeroRect,
     allowSame |-> FALSE, todo |-> <<>>, cur |-> ZeroRect, p |-> NULL,
     then |-> "idle", baseLayer |-> NULL, baseForComposited |-> NULL,
     widthOf |-> NULL, heightOf |-> NULL, oldPage |-> NULL]

\* GLWebViewState::GLWebViewState
Init ==
    /\ m_baseLayer = NULL
    /\ m_currentBaseLayer = NULL
    /\ m_previouslyUsedRoot = NULL
    /\ m_currentPictureCounter = 0
    /\ m_usePageA = TRUE
    /\ m_frameworkInval = ZeroRect
    /\ m_frameworkLayersInval = ZeroRect
    /\ m_baseLayerUpdate = TRUE
    /\ m_backgroundColor = "white"
    /\ m_displayRings = FALSE
    /\ m_goingDown = TRUE
    /\ m_goingLeft = FALSE
    /\ m_expandedTileBoundsX = 0
    /\ m_expandedTileBoundsY = 0
    /\ m_viewport = SkRect(0, 0, 0, 0)
    /\ m_viewportTileBounds = SkRect(0, 0, 0, 0)
    /\ m_invalidateRegion = {}
    /\ m_lastInval = ZeroRect
    /\ refCount = [o \in Layers \cup Roots |-> 0]
    /\ extra = [l \in Layers |-> NoPicture]
    /\ futureScale = 100
    /\ maxTextureCount = 0
    /\ invertedScreenSwitch = FALSE
    /\ outInvalRect = UnwrittenRect
    /\ crashed = FALSE
    /\ calls = <<>>
    /\ last = NoCall
    /\ deferred = {}
    /\ pc = [t \in Threads |-> "idle"]
    /\ owner = [l \in Locks |-> NULL]
    /\ local = [t \in Threads |-> NoLocal]
    /\ evicting = {}

\* --------------------------------------------------------------- the pages
\* GLWebViewState::sibling
sibling(page) == IF page = "A" THEN "B" ELSE "A"
\* GLWebViewState::frontPage
frontPage(s) == IF s.m_usePageA THEN "A" ELSE "B"
\* GLWebViewState::backPage
backPage(s) == IF s.m_usePageA THEN "B" ELSE "A"

\* swapPages discarding the textures of the page that became front
swapPagesDiscardingFront(s) ==
    LET s1 == [s EXCEPT !.m_usePageA = ~@]
        s2 == Did(s1, Call0("swapPages", "zoomManager"))
    IN Did(s2, Call0("discardTextures", frontPage(s1)))

\* GLWebViewState::swapPages
swapPagesCode(s) ==
    LET s1 == [s EXCEPT !.m_usePageA = ~@]
        oldPage == IF s1.m_usePageA THEN "B" ELSE "A"
        s2 == Did(s1, Call0("swapPages", "zoomManager"))
    IN Did(s2, Call0("discardTextures", oldPage))

\* ------------------------------------------------------------ invalidation
\* inval overwriting the union with the new rectangle instead of uniting
invalOverwriting(s, rect) ==
    LET s1 ==
          IF s.m_baseLayerUpdate
          THEN LET n == s.m_currentPictureCounter + 1
                   c == [s EXCEPT !.m_currentPictureCounter = n]
               IN IF ~isEmpty(rect)
                  THEN [Did(c, Call("invalidateRect", frontPage(c), rect, n, NULL, NULL))
                           EXCEPT !.m_frameworkInval = rect]
                  ELSE c
          ELSE [s EXCEPT !.m_invalidateRegion = regionUnionRect(@, rect)]
    IN Did(s1, Call("nextInval", "profiler", rect, 0, NULL, NULL))

\* inval passing the counter's value from before the increment
invalStaleGeneration(s, rect) ==
    LET s1 ==
          IF s.m_baseLayerUpdate
          THEN LET n == s.m_currentPictureCounter + 1
                   c == [s EXCEPT !.m_currentPictureCounter = n]
               IN IF ~isEmpty(rect)
                  THEN [Did(c, Call("invalidateRect", frontPage(c), rect, n - 1, NULL, NULL))
                           EXCEPT !.m_frameworkInval =
                               IF isEmpty(@) THEN rect ELSE unite(@, rect)]
                  ELSE c
          ELSE [s EXCEPT !.m_invalidateRegion = regionUnionRect(@, rect)]
    IN Did(s1, Call("nextInval", "profiler", rect, 0, NULL, NULL))

\* GLWebViewState::inval
inval(s, rect) ==
    LET s1 ==
          IF s.m_baseLayerUpdate
          THEN LET n == s.m_currentPictureCounter + 1
                   c == [s EXCEPT !.m_currentPictureCounter = n]
               IN IF ~isEmpty(rect)
                  THEN [Did(c, Call("invalidateRect", frontPage(c), rect, n, NULL, NULL))
                           EXCEPT !.m_frameworkInval =
                               IF isEmpty(@) THEN rect ELSE unite(@, rect)]
                  ELSE c
          ELSE [s EXCEPT !.m_invalidateRegion = regionUnionRect(@, rect)]
    IN Did(s1, Call("nextInval", "profiler", rect, 0, NULL, NULL))

RECURSIVE invalEach(_, _)
invalEach(s, rects) ==
    IF rects = <<>> THEN s
    ELSE invalEach(inval(s, Head(rects)), Tail(rects))

\* invalRegion stopping after the first rectangle of the region
invalRegionFirstOnly(s, region) ==
    IF region = {} THEN s ELSE inval(s, Head(regionRects(region)))

\* GLWebViewState::invalRegion
invalRegion(s, region) == invalEach(s, regionRects(region))

\* --------------------------------------------------------------- the gate
\* setBaseLayer, lines 150-153: a null layer or a picture after the first
\* layout discards the textures of both pages.
discardOnNewLayout(s, layer, first) ==
    IF layer = NULL \/ first
    THEN Did(Did(s, Call0("discardTextures", "A")), Call0("discardTextures", "B"))
    ELSE s

\* lines 154-157 without the reset of the pending region
resetGateKeepingRegion(s, first) ==
    IF first THEN [s EXCEPT !.m_baseLayerUpdate = TRUE] ELSE s

\* lines 154-157 locking the gate on a first layout
lockGateOnFirstLayout(s, first) ==
    IF first
    THEN [s EXCEPT !.m_baseLayerUpdate = FALSE, !.m_invalidateRegion = {}]
    ELSE s

\* setBaseLayer, lines 154-157
resetGateOnFirstLayout(s, first) ==
    IF first
    THEN [s EXCEPT !.m_baseLayerUpdate = TRUE, !.m_invalidateRegion = {}]
    ELSE s

\* BaseLayerAndroid::swapExtra, called at lines 158-159
swapExtra(s, layer) ==
    IF s.m_baseLayer # NULL /\ layer # NULL
    THEN [s EXCEPT !.extra[s.m_baseLayer] = s.extra[layer],
                   !.extra[layer] = s.extra[s.m_baseLayer]]
    ELSE s

\* lines 161-165 releasing the old layer before retaining the new one
storeBaseLayerUnrefFirst(s, layer) ==
    LET s1 == SkSafeRef(SkSafeUnref(s, s.m_baseLayer), layer)
        s2 == [s1 EXCEPT !.m_baseLayer = layer]
    IN IF layer # NULL THEN Did(s2, Call0("setGLWebViewState", layer)) ELSE s2

\* setBaseLayer, lines 161-165
storeBaseLayer(s, layer) ==
    LET s1 == SkSafeUnref(SkSafeRef(s, layer), s.m_baseLayer)
        s2 == [s1 EXCEPT !.m_baseLayer = layer]
    IN IF layer # NULL THEN Did(s2, Call0("setGLWebViewState", layer)) ELSE s2

\* lines 169-173 without the test of m_baseLayerUpdate
promoteAlways(s, layer) ==
    [SkSafeUnref(SkSafeRef(s, layer), s.m_currentBaseLayer)
        EXCEPT !.m_currentBaseLayer = layer]

\* setBaseLayer, lines 169-173
promoteIfUnlocked(s, layer) ==
    IF s.m_baseLayerUpdate
    THEN [SkSafeUnref(SkSafeRef(s, layer), s.m_currentBaseLayer)
             EXCEPT !.m_currentBaseLayer = layer]
    ELSE s

\* GLWebViewState::setBaseLayer
setBaseLayerCode(s, layer, region, first) ==
    LET s1 == discardOnNewLayout(s, layer, first)
        s2 == resetGateOnFirstLayout(s1, first)
        s3 == swapExtra(s2, layer)
        s4 == storeBaseLayer(s3, layer)
        s5 == promoteIfUnlocked(s4, layer)
        s6 == [s5 EXCEPT !.m_displayRings = FALSE]
        s7 == invalRegion(s6, region)
    IN Did(s7, Call0("setShowVisualIndicator", "tilesManager"))

\* GLWebViewState::setRings (the rings region itself is only drawn)
setRingsCode(s) == [s EXCEPT !.m_displayRings = TRUE]

\* GLWebViewState::resetRings
resetRingsCode(s) == [s EXCEPT !.m_displayRings = FALSE]

\* GLWebViewState::lockBaseLayerUpdate (GLWebViewState.h)
lockBaseLayerUpdateCode(s) == [s EXCEPT !.m_baseLayerUpdate = FALSE]

\* GLWebViewState::unlockBaseLayerUpdate
unlockBaseLayerUpdateCode(s) ==
    IF s.m_baseLayerUpdate THEN s
    ELSE LET s1 == [s EXCEPT !.m_baseLayerUpdate = TRUE]
             s2 == SkSafeUnref(SkSafeRef(s1, s1.m_baseLayer), s1.m_currentBaseLayer)
             s3 == [s2 EXCEPT !.m_currentBaseLayer = s2.m_baseLayer]
             s4 == invalRegion(s3, s3.m_invalidateRegion)
         IN [s4 EXCEPT !.m_invalidateRegion = {}]

\* lines 238-243 without the inval of the previous rectangle
setExtraInvalNewOnly(s, rect) ==
    LET s1 == IF ~isEmpty(rect) THEN inval(s, rect) ELSE s
    IN [s1 EXCEPT !.m_lastInval = rect, !.m_displayRings = FALSE]

\* setExtra, lines 238-243
setExtraInval(s, rect) ==
    LET s1 == IF ~isEmpty(rect) THEN inval(s, rect) ELSE s
        s2 == IF ~isEmpty(s1.m_lastInval) THEN inval(s1, s1.m_lastInval) ELSE s1
    IN [s2 EXCEPT !.m_lastInval = rect, !.m_displayRings = FALSE]

\* setExtra, lines 233-243
setExtraUnlocked(s, layer, picture, rect, allowSame) ==
    LET s1 == [Did(s, Call0("setExtra", layer)) EXCEPT !.extra[layer] = picture]
    IN IF ~allowSame /\ s1.m_lastInval = rect THEN s1
       ELSE setExtraInval(s1, rect)

\* setExtra without the test of m_baseLayerUpdate
setExtraIgnoringGate(s, layer, picture, rect, allowSame) ==
    setExtraUnlocked(s, layer, picture, rect, allowSame)

\* GLWebViewState::setExtra
setExtraCode(s, layer, picture, rect, allowSame) ==
    IF ~s.m_baseLayerUpdate THEN s
    ELSE setExtraUnlocked(s, layer, picture, rect, allowSame)

\* ------------------------------------------------------------ the viewport
FloorDiv(a, b) == a \div b
CeilDiv(a, b) == -((-a) \div b)

\* setViewport, lines 420-445; scale is in hundredths.
setViewportUpdate(s, viewport, scale) ==
         LET s1 == [s EXCEPT
                     !.m_goingDown = (s.m_viewport.t - viewport.t <= 0),
                     !.m_goingLeft = (s.m_viewport.l - viewport.l >= 0),
                     !.m_viewport = viewport,
                     !.m_viewportTileBounds =
                         SkRect(FloorDiv(viewport.l * scale, 100 * TileWidth),
                                FloorDiv(viewport.t * scale, 100 * TileHeight),
                                CeilDiv(viewport.r * scale, 100 * TileWidth),
                                CeilDiv(viewport.b * scale, 100 * TileHeight))]
             viewMaxTileX ==
                 CeilDiv((viewport.r - viewport.l - 1) * scale, 100 * TileWidth) + 1
             viewMaxTileY ==
                 CeilDiv((viewport.b - viewport.t - 1) * scale, 100 * TileHeight) + 1
             count == (viewMaxTileX + TILE_PREFETCH_DISTANCE * 2)
                      * (viewMaxTileY + TILE_PREFETCH_DISTANCE * 2) * 2
             s2 == [Did(s1, Call("setMaxTextureCount", "tilesManager", ZeroRect,
                                 count, NULL, NULL))
                       EXCEPT !.maxTextureCount = count]
         IN Did(Did(s2, Call0("updateBaseTileSize", "A")),
                Call0("updateBaseTileSize", "B"))

\* setViewport without the early return
setViewportAlways(s, viewport, scale) == setViewportUpdate(s, viewport, scale)

\* GLWebViewState::setViewport
setViewportCode(s, viewport, scale) ==
    IF s.m_viewport = viewport /\ s.futureScale = scale THEN s
    ELSE setViewportUpdate(s, viewport, scale)

\* ------------------------------------------------------- the dirty unions
\* resetFrameworkInval leaving the union as it is
resetFrameworkInvalKeeping(s) == s

\* GLWebViewState::resetFrameworkInval
resetFrameworkInval(s) == [s EXCEPT !.m_frameworkInval = ZeroRect]

\* GLWebViewState::resetLayersDirtyArea
resetLayersDirtyArea(s) == [s EXCEPT !.m_frameworkLayersInval = ZeroRect]

\* GLWebViewState::addDirtyArea
addDirtyAreaCode(s, rect) ==
    IF isEmpty(rect) THEN s
    ELSE LET inflatedRect == inflate(rect, LAYER_INFLATE)
         IN [s EXCEPT !.m_frameworkLayersInval =
                IF isEmpty(@) THEN inflatedRect ELSE unite(@, inflatedRect)]

\* ---------------------------------------------------------------- drawGL
\* lines 583 and 591 with the bounds themselves out of range
scaleOutOfRangeInclusive(scale) ==
    scale <= MIN_SCALE_WARNING_x100 \/ scale >= MAX_SCALE_WARNING_x100

\* drawGL, lines 583 and 591
scaleOutOfRange(scale) ==
    scale < MIN_SCALE_WARNING_x100 \/ scale > MAX_SCALE_WARNING_x100

\* float -> int conversion of a value held in hundredths (truncation)
Trunc100(a) == IF a >= 0 THEN a \div 100 ELSE -((-a) \div 100)

\* ShaderProgram::rectInInvScreenCoord followed by lines 632-634: the
\* document rectangle is mapped to screen coordinates (relative to the
\* viewport's origin, times the scale), inflated by 1 and converted to an
\* IntRect.
screenInval(s, r, scale) ==
    LET x == (r.x - s.m_viewport.l) * scale - 100 * INVAL_INFLATE
        y == (r.y - s.m_viewport.t) * scale - 100 * INVAL_INFLATE
        w == r.w * scale + 2 * 100 * INVAL_INFLATE
        h == r.h * scale + 2 * 100 * INVAL_INFLATE
    IN R(Trunc100(x), Trunc100(y), Trunc100(w), Trunc100(h))

Ret(s, v) == [state |-> s, ret |-> v]

\* drawGL, lines 537-553: the two references taken under m_baseLayerLock
drawGLAcquire(s) ==
    LET s1 == Did(Did(s, Call0("nextFrame", "profiler")),
                  Call0("incDrawGLCount", "tilesManager"))
    IN SkSafeRef(SkSafeRef(s1, s1.m_currentBaseLayer), s1.m_baseLayer)

\* lines 554-557 without the SkSafeUnref
drawGLNoBaseLayerLeaking(s, baseForComposited) == Ret(s, FALSE)

\* drawGL, lines 554-557
drawGLNoBaseLayer(s, baseForComposited) ==
    Ret(SkSafeUnref(s, baseForComposited), FALSE)

\* GLWebViewState::baseContentWidth / baseContentHeight, for the value of
\* m_currentBaseLayer they read
baseContentWidth(layer) == IF layer # NULL THEN contentWidth(layer) ELSE 0
baseContentHeight(layer) == IF layer # NULL THEN contentHeight(layer) ELSE 0

\* drawGL, lines 559, 561 and 563
prefetchHorz(s, viewport, layer) ==
    LET useHorzPrefetch ==
            (viewport.r - viewport.l) * TILE_PREFETCH_RATIO_x10 < baseContentWidth(layer) * 10
    IN [s EXCEPT
          !.m_expandedTileBoundsX = IF useHorzPrefetch THEN TILE_PREFETCH_DISTANCE ELSE 0]

\* drawGL, lines 560, 562 and 564
prefetchVert(s, viewport, layer) ==
    LET useVertPrefetch ==
            (viewport.b - viewport.t) * TILE_PREFETCH_RATIO_x10 < baseContentHeight(layer) * 10
    IN [s EXCEPT
          !.m_expandedTileBoundsY = IF useVertPrefetch THEN TILE_PREFETCH_DISTANCE ELSE 0]

\* drawGL, lines 559-564, m_currentBaseLayer being the same at both reads
drawGLPrefetch(s, viewport) ==
    prefetchVert(prefetchHorz(s, viewport, s.m_currentBaseLayer),
                 viewport, s.m_currentBaseLayer)

\* drawGL, lines 572-577: which layer the composited root is looked up in
useBaseLayerForComposited(baseForComposited) ==
    baseForComposited = NULL \/ countChildren(baseForComposited) = 0

\* drawGL, lines 579-581
compositedRootOf(baseForComposited) ==
    IF baseForComposited # NULL /\ countChildren(baseForComposited) >= 1
    THEN getChild0(baseForComposited) ELSE NULL

\* GLWebViewState::setupDrawing; newFuture is the future scale that
\* ZoomManager::processNewScale leaves.
setupDrawing(s, viewRect, visibleRect, scale, newFuture) ==
    LET s1 == Did(s, Call("glClear", "gl", ZeroRect, 0, s.m_backgroundColor, NULL))
        s2 == Did(s1, Call("setViewRect", "shader", viewRect, 0, NULL, NULL))
        s3 == setViewportCode(s2, visibleRect, scale)
    IN [Did(s3, Call("processNewScale", "zoomManager", ZeroRect, scale, NULL, NULL))
           EXCEPT !.futureScale = newFuture]

\* lines 617-660 without the test of an empty m_frameworkInval (line 621)
drawGLReportIgnoringEmpty(s, ret, rect, scale) ==
    IF ret
    THEN LET s1 == IF s.invertedScreenSwitch
                   THEN [Did(s, Call0("setInvertedScreenSwitch", "tilesManager"))
                            EXCEPT !.invertedScreenSwitch = FALSE]
                   ELSE s
             full1 == s.invertedScreenSwitch
             inv == unite(screenInval(s1, s1.m_frameworkInval, scale),
                          s1.m_frameworkLayersInval)
             s2 == IF ~full1 THEN [s1 EXCEPT !.outInvalRect = inv] ELSE s1
             full2 == full1 \/ (~full1 /\ ~intersects(inv, rect))
         IN IF full2 THEN [s2 EXCEPT !.outInvalRect = ZeroRect] ELSE s2
    ELSE resetFrameworkInval(s)

\* lines 617-660 without the unite with m_frameworkLayersInval (line 636)
drawGLReportWithoutLayers(s, ret, rect, scale) ==
    IF ret
    THEN LET full0 == isEmpty(s.m_frameworkInval)
             s1 == IF s.invertedScreenSwitch
                   THEN [Did(s, Call0("setInvertedScreenSwitch", "tilesManager"))
                            EXCEPT !.invertedScreenSwitch = FALSE]
                   ELSE s
             full1 == full0 \/ s.invertedScreenSwitch
             inv == screenInval(s1, s1.m_frameworkInval, scale)
             s2 == IF ~full1 THEN [s1 EXCEPT !.outInvalRect = inv] ELSE s1
             full2 == full1 \/ (~full1 /\ ~intersects(inv, rect))
         IN IF full2 THEN [s2 EXCEPT !.outInvalRect = ZeroRect] ELSE s2
    ELSE resetFrameworkInval(s)

\* drawGL, lines 617-660: the invalidation reported to the caller
drawGLReport(s, ret, rect, scale) ==
    IF ret
    THEN LET full0 == isEmpty(s.m_frameworkInval)
             s1 == IF s.invertedScreenSwitch
                   THEN [Did(s, Call0("setInvertedScreenSwitch", "tilesManager"))
                            EXCEPT !.invertedScreenSwitch = FALSE]
                   ELSE s
             full1 == full0 \/ s.invertedScreenSwitch
             inv == unite(screenInval(s1, s1.m_frameworkInval, scale),
                          s1.m_frameworkLayersInval)
             s2 == IF ~full1 THEN [s1 EXCEPT !.outInvalRect = inv] ELSE s1
             full2 == full1 \/ (~full1 /\ ~intersects(inv, rect))
         IN IF full2 THEN [s2 EXCEPT !.outInvalRect = ZeroRect] ELSE s2
    ELSE resetFrameworkInval(s)

\* drawGL, lines 583-584: the warning before the transfer queue is flushed
warnScaleBeforeUpdate(s, scale) ==
    IF scaleOutOfRange(scale)
    THEN Did(s, Call("XLOGC", "log", ZeroRect, scale, "before update", NULL))
    ELSE s

\* lines 597-600 without the comparison with m_previouslyUsedRoot
gatherAndSwapAlways(s, compositedRoot) ==
    Did(Did(s, Call0("gatherLayerTextures", "tilesManager")),
        Call("swapLayersTextures", "tilesManager", ZeroRect, 0,
             s.m_previouslyUsedRoot, compositedRoot))

\* drawGL, lines 597-600
gatherAndSwapLayersTextures(s, compositedRoot) ==
    LET s1 == Did(s, Call0("gatherLayerTextures", "tilesManager"))
    IN IF compositedRoot # s1.m_previouslyUsedRoot
       THEN Did(s1, Call("swapLayersTextures", "tilesManager", ZeroRect, 0,
                         s1.m_previouslyUsedRoot, compositedRoot))
       ELSE s1

\* BaseLayerAndroid::drawGL, called at lines 605-606: the layers drawn
\* report the area they dirtied through addDirtyArea.
drawBaseLayer(s, baseLayer, compositedRoot, rect, scale, dirty) ==
    addDirtyAreaCode(Did(s, Call("drawGL", baseLayer, rect, scale, compositedRoot, NULL)),
                     dirty)

\* drawGL, lines 611-613
keepCompositedRoot(s, compositedRoot) ==
    [SkSafeUnref(SkSafeRef(s, compositedRoot), s.m_previouslyUsedRoot)
        EXCEPT !.m_previouslyUsedRoot = compositedRoot]

\* drawGL, lines 570-677, with the two references taken at lines 549-552.
\* drawRet is what BaseLayerAndroid::drawGL returns and dirty the area its
\* layers pass to addDirtyArea meanwhile.
drawGLAfterPrefetch(s, baseLayer, baseForComposited0, rect, viewport, clip, scale, drawRet, dirty, newFuture) ==
       LET s2 == resetLayersDirtyArea(s)
           swapIn == useBaseLayerForComposited(baseForComposited0)
           s3 == IF swapIn THEN SkSafeUnref(SkSafeRef(s2, baseLayer), baseForComposited0)
                 ELSE s2
           baseForComposited == IF swapIn THEN baseLayer ELSE baseForComposited0
           compositedRoot == compositedRootOf(baseForComposited)
           s4 == warnScaleBeforeUpdate(s3, scale)
           s5 == Did(s4, Call0("updateDirtyBaseTiles", "transferQueue"))
       IN IF scaleOutOfRange(scale)
          THEN Ret([Did(s5, Call("XLOGC", "log", ZeroRect, scale, "after update", NULL))
                       EXCEPT !.crashed = TRUE], FALSE)
          ELSE
          LET s7 == gatherAndSwapLayersTextures(s5, compositedRoot)
              s8 == [s7 EXCEPT !.m_backgroundColor = getBackgroundColor(baseLayer)]
              s9 == setupDrawing(s8, rect, viewport, scale, newFuture)
              s10 == drawBaseLayer(s9, baseLayer, compositedRoot, rect, scale, dirty)
              s11 == Did(s10, Call0("paintExtras", "gl"))
              s12 == keepCompositedRoot(s11, compositedRoot)
              ret == drawRet \/ s12.invertedScreenSwitch
              s13 == drawGLReport(s12, ret, rect, scale)
              s14 == SkSafeUnref(SkSafeUnref(s13, baseForComposited), baseLayer)
          IN Ret(s14, ret)

\* GLWebViewState::drawGL, run without another thread in between.
drawGLCode(s, rect, viewport, clip, scale, drawRet, dirty, newFuture) ==
    LET baseLayer == s.m_currentBaseLayer
        s1 == drawGLAcquire(s)
    IN IF baseLayer = NULL THEN drawGLNoBaseLayer(s1, s.m_baseLayer)
       ELSE drawGLAfterPrefetch(drawGLPrefetch(s1, viewport), baseLayer,
                                s.m_baseLayer, rect, viewport, clip, scale,
                                drawRet, dirty, newFuture)

\* ------------------------------------------------------------------ inputs
RA == R(0, 0, 2, 1)
RB == R(0, 0, 1, 2)
RC == R(1, 1, 1, 1)
RD == R(2, 0, 1, 1)
InvalRegions == {{}, Cells(RA), Cells(RB)}
ExtraRects == {ZeroRect, RC, RD}
DirtyAreas == {ZeroRect, RC}
V1 == SkRect(0, 0, 300, 300)
V2 == SkRect(100, 50, 400, 350)
Viewports == {V1, V2}
Scales == {5, 100, 1000, 5000}
ViewRects == {R(0, 0, 300, 300), R(10, 10, 300, 300)}
ClipRects == {R(0, 0, 300, 300), R(20, 20, 100, 100)}

\* ----------------------------------------------------------------- actions
Range(f) == {f[i] : i \in DOMAIN f}

\* The non-empty rectangles a handler passed to inval, as the profiler saw
\* them (line 266).
invalArgs(cs) == {c.rect : c \in {d \in Range(cs) : d.fn = "nextInval" /\ ~isEmpty(d.rect)}}

\* A call can be made while the process has not aborted.
CanCall == ~crashed /\ last.n < MaxCalls

\* A handler runs to completion; the picture counter stays within its cap.
Run(s, l) ==
    /\ s.m_currentPictureCounter <= MaxPictureCounter
    /\ Becomes(s)
    /\ last' = l
    /\ deferred' = IF s.m_invalidateRegion = {} THEN {}
                   ELSE deferred \cup invalArgs(s.calls)
    /\ UNCHANGED <<pc, owner, local, evicting>>

setBaseLayer(layers, regions) ==
    /\ CanCall
    /\ \E layer \in layers, region \in regions, first \in BOOLEAN :
        Run(setBaseLayerCode(This, layer, region, first),
            [Called("setBaseLayer") EXCEPT !.layer = layer, !.region = region,
                                           !.first = first])

setRings ==
    /\ CanCall
    /\ Run(setRingsCode(This), Called("setRings"))

resetRings ==
    /\ CanCall
    /\ Run(resetRingsCode(This), Called("resetRings"))

lockBaseLayerUpdate ==
    /\ CanCall
    /\ Run(lockBaseLayerUpdateCode(This), Called("lockBaseLayerUpdate"))

unlockBaseLayerUpdate ==
    /\ CanCall
    /\ Run(unlockBaseLayerUpdateCode(This), Called("unlockBaseLayerUpdate"))

setExtra(layers, rects) ==
    /\ CanCall
    /\ \E layer \in layers, picture \in Pictures, rect \in rects, allowSame \in BOOLEAN :
        Run(setExtraCode(This, layer, picture, rect, allowSame),
            [Called("setExtra") EXCEPT !.layer = layer, !.rect = rect,
                                       !.allowSame = allowSame])

swapPages ==
    /\ CanCall
    /\ Run(swapPagesCode(This), Called("swapPages"))

setViewport(viewports, scales) ==
    /\ CanCall
    /\ \E viewport \in viewports, scale \in scales :
        Run(setViewportCode(This, viewport, scale),
            [Called("setViewport") EXCEPT !.vp = viewport, !.scale = scale])

addDirtyArea(rects) ==
    /\ CanCall
    /\ \E rect \in rects :
        Run(addDirtyAreaCode(This, rect), [Called("addDirtyArea") EXCEPT !.rect = rect])

drawGL(viewRects, viewports, clips, scales, dirties) ==
    /\ CanCall
    /\ \E rect \in viewRects, viewport \in viewports, clip \in clips,
       scale \in scales, drawRet \in BOOLEAN, dirty \in dirties :
      \E newFuture \in {futureScale, scale} :
        LET res == drawGLCode(This, rect, viewport, clip, scale, drawRet, dirty,
                              newFuture)
        IN Run(res.state,
               [Called("drawGL") EXCEPT !.rect = rect, !.vp = viewport,
                                        !.scale = scale, !.ret = res.ret,
                                        !.clip = clip, !.drawRet = drawRet,
                                        !.dirty = dirty])

\* TilesManager::setInvertedScreenSwitch(true), by the inverted-screen setting
invertedScreenSwitched ==
    /\ CanCall
    /\ ~invertedScreenSwitch
    /\ Run([This EXCEPT !.invertedScreenSwitch = TRUE], Called("setInvertedScreenSwitch"))

\* The gate, the pages and the base dirty union with all their inputs; the
\* viewport and the frame with one input each.
Next ==
    \/ setBaseLayer(Layers \cup {NULL}, InvalRegions)
    \/ setRings
    \/ resetRings
    \/ lockBaseLayerUpdate
    \/ unlockBaseLayerUpdate
    \/ setExtra(Layers, ExtraRects)
    \/ swapPages
    \/ setViewport({V1}, {100})
    \/ addDirtyArea({RC})
    \/ drawGL({R(0, 0, 300, 300)}, {V1}, {R(0, 0, 300, 300)}, {100}, {ZeroRect})
    \/ invertedScreenSwitched

Spec == Init /\ [][Next]_vars

\* The viewport and the frame with all their inputs; the gate with one
\* invalidated region and one extras rectangle.
NextFrame ==
    \/ setBaseLayer(Layers \cup {NULL}, {Cells(RA)})
    \/ setRings
    \/ resetRings
    \/ lockBaseLayerUpdate
    \/ unlockBaseLayerUpdate
    \/ setExtra({"L1"}, {RC})
    \/ swapPages
    \/ setViewport(Viewports, Scales)
    \/ addDirtyArea(DirtyAreas)
    \/ drawGL(ViewRects, Viewports, {R(0, 0, 300, 300)}, Scales, {ZeroRect})
    \/ invertedScreenSwitched

SpecFrame == Init /\ [][NextFrame]_vars

\* The frame's report to its caller with all its inputs (the frame and clip
\* rectangles, the viewport, what the draw returns and dirties), after the
\* calls that fill the two dirty unions.
NextReport ==
    \/ setBaseLayer(Layers \cup {NULL}, {Cells(RA)})
    \/ setExtra({"L1"}, {RC, RD})
    \/ addDirtyArea(DirtyAreas)
    \/ drawGL(ViewRects, Viewports, ClipRects, {100}, DirtyAreas)
    \/ invertedScreenSwitched

SpecReport == Init /\ [][NextReport]_vars

\* ----------------------------------------------------------------- threads
\* The methods again, one step per lock operation and per access to the
\* shared fields, so that the threads interleave where the code lets them.
HeldBy(t) == {l \in Locks : owner[l] = t}
Release(l) == [owner EXCEPT ![l] = NULL]
Front == IF m_usePageA THEN "A" ELSE "B"

\* One step of thread t, from one place of its method to the next.
Step(t, from, to, s, loc, own, ev) ==
    /\ ~crashed
    /\ pc[t] = from
    /\ pc' = [pc EXCEPT ![t] = to]
    /\ \E after \in {s} : Becomes(after)
    /\ local' = [local EXCEPT ![t] = loc]
    /\ owner' = own
    /\ evicting' = ev
    /\ UNCHANGED <<last, deferred>>
\* Thread t, outside any method, calls one: the calls made are counted.
Enter(t, to, s, loc) ==
    /\ CanCall
    /\ pc[t] = "idle"
    /\ pc' = [pc EXCEPT ![t] = to]
    /\ Becomes(s)
    /\ local' = [local EXCEPT ![t] = loc]
    /\ last' = [last EXCEPT !.n = @ + 1]
    /\ UNCHANGED <<owner, evicting, deferred>>
\* A step that touches the thread's position only.
Goto(t, from, to) == Step(t, from, to, This, local[t], owner, evicting)
\* A step that takes a mutex, once it is free.
Lock(t, from, to, l) ==
    /\ owner[l] = NULL
    /\ Step(t, from, to, This, local[t], [owner EXCEPT ![l] = t], evicting)

HasArea(r) == ~isEmpty(r)
\* The picture counter stays within its cap: a method that may call inval
\* k times starts only if the cap leaves room for them.
RoomFor(k) == m_currentPictureCounter + k <= MaxPictureCounter

\* --- inval (lines 246-267) and the loop of invalRegion (203-209), run by
\* the thread "ui" inside setBaseLayer, unlockBaseLayerUpdate and setExtra
invalNext ==
    IF local["ui"].todo = <<>>
    THEN Goto("ui", "inval_next", local["ui"].then)
    ELSE Step("ui", "inval_next", "inval_test", This,
              [local["ui"] EXCEPT !.cur = Head(local["ui"].todo), !.todo = Tail(@)],
              owner, evicting)

\* lines 248-251 and 262-264
invalTest ==
    LET rect == local["ui"].cur
    IN IF m_baseLayerUpdate
       THEN Step("ui", "inval_test",
                 IF ~isEmpty(rect) THEN "inval_front_lock" ELSE "inval_profile",
                 [This EXCEPT !.m_currentPictureCounter = @ + 1],
                 local["ui"], owner, evicting)
       ELSE Step("ui", "inval_test", "inval_profile",
                 [This EXCEPT !.m_invalidateRegion = regionUnionRect(@, rect)],
                 local["ui"], owner, evicting)

\* frontPage(), line 386, called at line 253
invalFrontLock == Lock("ui", "inval_front_lock", "inval_front_read", "m_tiledPageLock")

\* frontPage(), lines 387-388
invalFrontRead ==
    Step("ui", "inval_front_read", "inval_apply", This,
         [local["ui"] EXCEPT !.p = Front], Release("m_tiledPageLock"), evicting)

\* lines 253-257: invalidateRect on the page frontPage() returned
invalApply ==
    LET rect == local["ui"].cur
        s1 == Did(This, Call("invalidateRect", local["ui"].p, rect,
                             m_currentPictureCounter, NULL, NULL))
    IN Step("ui", "inval_apply", "inval_profile",
            [s1 EXCEPT !.m_frameworkInval = IF isEmpty(@) THEN rect ELSE unite(@, rect)],
            local["ui"], owner, evicting)

\* line 266
invalProfile ==
    Step("ui", "inval_profile", "inval_next",
         Did(This, Call("nextInval", "profiler", local["ui"].cur, 0, NULL, NULL)),
         local["ui"], owner, evicting)

\* --- setBaseLayer
uiCallSetBaseLayer ==
    \E layer \in Layers \cup {NULL}, region \in {{}, Cells(RC)}, first \in BOOLEAN :
       /\ RoomFor(Len(regionRects(region)))
       /\ Enter("ui", "sb_lock", This,
                [NoLocal EXCEPT !.layer = layer, !.region = region, !.first = first])

\* line 149
sbLock ==
    /\ Lock("ui", "sb_lock", "sb_locked", "m_baseLayerLock")

\* line 150
sbTest ==
    Goto("ui", "sb_locked",
         IF local["ui"].layer = NULL \/ local["ui"].first THEN "sb_discard" ELSE "sb_store")

\* lines 151-152
sbDiscard ==
    Step("ui", "sb_discard", "sb_store",
         discardOnNewLayout(This, local["ui"].layer, local["ui"].first),
         local["ui"], owner, evicting)

\* lines 154-174
sbStore ==
    LET layer == local["ui"].layer
        s2 == resetGateOnFirstLayout(This, local["ui"].first)
        s3 == swapExtra(s2, layer)
        s4 == storeBaseLayer(s3, layer)
        s5 == promoteIfUnlocked(s4, layer)
    IN Step("ui", "sb_store", "inval_next",
            [s5 EXCEPT !.m_displayRings = FALSE],
            [local["ui"] EXCEPT !.todo = regionRects(local["ui"].region), !.then = "sb_done"],
            owner, evicting)

\* lines 183-184
sbDone ==
    Step("ui", "sb_done", "idle",
         Did(This, Call0("setShowVisualIndicator", "tilesManager")),
         NoLocal, Release("m_baseLayerLock"), evicting)

\* --- unlockBaseLayerUpdate
uiCallUnlock ==
    /\ RoomFor(Len(regionRects(m_invalidateRegion)))
    /\ Enter("ui", "ul_test", This, NoLocal)

\* lines 213-214
ulTest == Goto("ui", "ul_test", IF m_baseLayerUpdate THEN "idle" ELSE "ul_set")

\* line 216
ulSet ==
    Step("ui", "ul_set", "ul_lock", [This EXCEPT !.m_baseLayerUpdate = TRUE],
         local["ui"], owner, evicting)

\* line 217
ulLock == Lock("ui", "ul_lock", "ul_promote", "m_baseLayerLock")

\* lines 218-222 (the iterator over m_invalidateRegion is made at line 203)
ulPromote ==
    LET s2 == SkSafeUnref(SkSafeRef(This, m_baseLayer), m_currentBaseLayer)
    IN Step("ui", "ul_promote", "inval_next",
            [s2 EXCEPT !.m_currentBaseLayer = m_baseLayer],
            [local["ui"] EXCEPT !.todo = regionRects(m_invalidateRegion), !.then = "ul_done"],
            owner, evicting)

\* lines 223-224
ulDone ==
    Step("ui", "ul_done", "idle", [This EXCEPT !.m_invalidateRegion = {}],
         NoLocal, Release("m_baseLayerLock"), evicting)

\* --- setExtra
uiCallSetExtra ==
    \E allowSame \in BOOLEAN :
       /\ RoomFor(2)
       /\ Enter("ui", "se_lock", This,
                [NoLocal EXCEPT !.layer = "L1", !.rect = RC, !.allowSame = allowSame])

\* line 229
seLock == Lock("ui", "se_lock", "se_test", "m_baseLayerLock")

\* lines 230-241
seTest ==
    IF ~m_baseLayerUpdate
    THEN Step("ui", "se_test", "idle", This, NoLocal, Release("m_baseLayerLock"), evicting)
    ELSE LET l == local["ui"]
             s1 == [Did(This, Call0("setExtra", l.layer)) EXCEPT !.extra[l.layer] = "P1"]
         IN IF ~l.allowSame /\ m_lastInval = l.rect
            THEN Step("ui", "se_test", "idle", s1, NoLocal,
                      Release("m_baseLayerLock"), evicting)
            ELSE Step("ui", "se_test", "inval_next", s1,
                      [l EXCEPT !.todo = SelectSeq(<<l.rect, m_lastInval>>, HasArea),
                                !.then = "se_done"],
                      owner, evicting)

\* lines 242-244
seDone ==
    Step("ui", "se_done", "idle",
         [This EXCEPT !.m_lastInval = local["ui"].rect, !.m_displayRings = FALSE],
         NoLocal, Release("m_baseLayerLock"), evicting)

\* --- setRings
uiCallSetRings == Enter("ui", "sr_lock", This, NoLocal)

\* line 188
srLock == Lock("ui", "sr_lock", "sr_set", "m_baseLayerLock")

\* lines 189-199
srSet ==
    Step("ui", "sr_set", "idle", setRingsCode(This), NoLocal,
         Release("m_baseLayerLock"), evicting)

\* --- lockBaseLayerUpdate (GLWebViewState.h)
uiLockBaseLayerUpdate ==
    Enter("ui", "idle", lockBaseLayerUpdateCode(This), NoLocal)

\* --- drawGL, run by the thread "gl" with one frame rectangle, viewport and
\* scale
FrameRect == R(0, 0, 300, 300)

\* lines 537-546
glCallDrawGL ==
    Enter("gl", "dg_lock",
          Did(Did(This, Call0("nextFrame", "profiler")),
              Call0("incDrawGLCount", "tilesManager")),
          NoLocal)

\* line 548
dgLock == Lock("gl", "dg_lock", "dg_acquire", "m_baseLayerLock")

\* lines 549-553
dgAcquire ==
    Step("gl", "dg_acquire", "dg_check",
         SkSafeRef(SkSafeRef(This, m_currentBaseLayer), m_baseLayer),
         [local["gl"] EXCEPT !.baseLayer = m_currentBaseLayer,
                             !.baseForComposited = m_baseLayer],
         Release("m_baseLayerLock"), evicting)

\* lines 554-557
dgCheck ==
    IF local["gl"].baseLayer = NULL
    THEN Step("gl", "dg_check", "idle",
              drawGLNoBaseLayer(This, local["gl"].baseForComposited).state,
              NoLocal, owner, evicting)
    ELSE Goto("gl", "dg_check", "dg_width")

\* baseContentWidth(), line 407, called at line 561: m_currentBaseLayer is
\* tested and then dereferenced.  A build may read the field once or twice;
\* a second read that finds NULL dereferences it.
dgWidth ==
    \E seen \in {m_currentBaseLayer} :
       Step("gl", "dg_width", "dg_width_use", This,
            [local["gl"] EXCEPT !.widthOf = seen], owner, evicting)

dgWidthUse ==
    \E used \in {local["gl"].widthOf, m_currentBaseLayer} :
       IF local["gl"].widthOf # NULL /\ used = NULL
       THEN Step("gl", "dg_width_use", "aborted", [This EXCEPT !.crashed = TRUE],
                 local["gl"], owner, evicting)
       ELSE Step("gl", "dg_width_use", "dg_height",
                 prefetchHorz(This, V1, IF local["gl"].widthOf = NULL THEN NULL ELSE used),
                 [local["gl"] EXCEPT !.widthOf = IF @ = NULL THEN NULL ELSE used],
                 owner, evicting)

\* baseContentHeight(), line 411, called at line 562
dgHeight ==
    \E seen \in {m_currentBaseLayer} :
       Step("gl", "dg_height", "dg_height_use", This,
            [local["gl"] EXCEPT !.heightOf = seen], owner, evicting)

dgHeightUse ==
    \E used \in {local["gl"].heightOf, m_currentBaseLayer} :
       IF local["gl"].heightOf # NULL /\ used = NULL
       THEN Step("gl", "dg_height_use", "aborted", [This EXCEPT !.crashed = TRUE],
                 local["gl"], owner, evicting)
       ELSE Step("gl", "dg_height_use", "dg_rest",
                 prefetchVert(This, V1, IF local["gl"].heightOf = NULL THEN NULL ELSE used),
                 [local["gl"] EXCEPT !.heightOf = IF @ = NULL THEN NULL ELSE used],
                 owner, evicting)

\* lines 570-677, at a scale within the range or above it: CRASH() at line
\* 593 ends the process and drawGL does not return.
dgRest ==
    /\ pc["gl"] = "dg_rest"
    /\ \E drawRet \in BOOLEAN, scale \in {100, 5000} :
       \E res \in {drawGLAfterPrefetch(This, local["gl"].baseLayer,
                                       local["gl"].baseForComposited, FrameRect, V1,
                                       FrameRect, scale, drawRet, ZeroRect, futureScale)} :
          IF res.state.crashed
          THEN Step("gl", "dg_rest", "aborted", res.state, local["gl"], owner, evicting)
          ELSE Step("gl", "dg_rest", "idle", res.state, NoLocal, owner, evicting)

\* --- swapPages, run by the thread "gl"
glCallSwapPages == Enter("gl", "sw_lock", This, NoLocal)

\* line 398
swLock == Lock("gl", "sw_lock", "sw_flip", "m_tiledPageLock")

\* lines 399-401
swFlip ==
    LET s1 == [This EXCEPT !.m_usePageA = ~@]
    IN Step("gl", "sw_flip", "sw_discard",
            Did(s1, Call0("swapPages", "zoomManager")),
            [local["gl"] EXCEPT !.oldPage = backPage(s1)], owner, evicting)

\* line 402: TiledPage::discardTextures is entered
swDiscardBegin ==
    Step("gl", "sw_discard", "sw_discarding",
         Did(This, Call0("discardTextures", local["gl"].oldPage)),
         local["gl"], owner, evicting \cup {local["gl"].oldPage})

\* lines 402-403 with m_tiledPageLock never released
swDiscardEndKeepingLock ==
    Step("gl", "sw_discarding", "idle", This, NoLocal, owner,
         evicting \ {local["gl"].oldPage})

\* lines 402-403: discardTextures returns and the Autolock is destroyed
swDiscardEnd ==
    Step("gl", "sw_discarding", "idle", This, NoLocal,
         Release("m_tiledPageLock"), evicting \ {local["gl"].oldPage})

\* --- paintBaseLayerContent, run by the thread "tex"
texCallPaint == Enter("tex", "pb_lock", This, NoLocal)

\* line 370
pbLock == Lock("tex", "pb_lock", "pb_test", "m_baseLayerLock")

\* line 371
pbTest ==
    Step("tex", "pb_test",
         IF m_currentBaseLayer # NULL THEN "pb_button_lock" ELSE "pb_done",
         This, [local["tex"] EXCEPT !.baseLayer = m_currentBaseLayer],
         owner, evicting)

\* line 372
pbButtonLock == Lock("tex", "pb_button_lock", "pb_draw", "m_globalButtonMutex")

\* line 373
pbDraw ==
    Step("tex", "pb_draw", "pb_button_unlock",
         Did(This, Call0("drawCanvas", m_currentBaseLayer)),
         local["tex"], owner, evicting)

\* line 374
pbButtonUnlock ==
    Step("tex", "pb_button_unlock", "pb_done", This, local["tex"],
         Release("m_globalButtonMutex"), evicting)

\* lines 376-377
pbDone ==
    Step("tex", "pb_done", "idle", This, NoLocal, Release("m_baseLayerLock"), evicting)

\* --- frontPage, called by the thread "tex", which then uses the page
texCallFrontPage == Enter("tex", "fp_lock", This, NoLocal)

\* line 386
fpLock == Lock("tex", "fp_lock", "fp_read", "m_tiledPageLock")

\* lines 387-388
fpRead ==
    Step("tex", "fp_read", "fp_use", This, [local["tex"] EXCEPT !.p = Front],
         Release("m_tiledPageLock"), evicting)

\* the caller is done with the page it obtained
fpUse == Step("tex", "fp_use", "idle", This, NoLocal, owner, evicting)

\* What each thread does once it is inside a method.
uiSteps ==
    \/ sbLock \/ sbTest \/ sbDiscard \/ sbStore \/ sbDone
    \/ ulTest \/ ulSet \/ ulLock \/ ulPromote \/ ulDone
    \/ seLock \/ seTest \/ seDone
    \/ srLock \/ srSet
    \/ invalNext \/ invalTest \/ invalFrontLock \/ invalFrontRead
    \/ invalApply \/ invalProfile
glSteps ==
    \/ dgLock \/ dgAcquire \/ dgCheck
    \/ dgWidth \/ dgWidthUse \/ dgHeight \/ dgHeightUse \/ dgRest
    \/ swLock \/ swFlip \/ swDiscardBegin \/ swDiscardEnd
texSteps ==
    \/ pbLock \/ pbTest \/ pbButtonLock \/ pbDraw \/ pbButtonUnlock \/ pbDone
    \/ fpLock \/ fpRead \/ fpUse

\* The three threads, each running its methods one after another.
NextThreads ==
    \/ uiCallSetBaseLayer \/ uiCallUnlock \/ uiCallSetExtra \/ uiCallSetRings
    \/ uiLockBaseLayerUpdate
    \/ uiSteps
    \/ glCallDrawGL \/ glCallSwapPages
    \/ glSteps
    \/ texCallPaint \/ texCallFrontPage
    \/ texSteps

SpecThreads == Init /\ [][NextThreads]_vars

\* The three threads with one call fewer, the content thread supplying the
\* layer L1 or none and no first layout.
NextLocks ==
    /\ NextThreads
    /\ last'.n < MaxCalls
    /\ ~local'["ui"].first
    /\ local'["ui"].layer # "L2"

\* A fair scheduler: a thread inside a method that can take its next step
\* takes it; no thread has to call a method.
SpecLocks ==
    Init /\ [][NextLocks]_vars
         /\ WF_vars(uiSteps) /\ WF_vars(glSteps) /\ WF_vars(texSteps)

\* ================================================================== claims
\* What the claims speak of, stated without the code's own operators.

\* The calls of a handler on one function, in order.
CallsOf(cs, fn) == SelectSeq(cs, LAMBDA c : c.fn = fn)
\* The pages whose textures a handler discarded, in order.
Discarded(cs) == [i \in DOMAIN CallsOf(cs, "discardTextures") |->
                     CallsOf(cs, "discardTextures")[i].on]
\* The rectangles a handler delivered to the pages (invalidateRect), in order.
Delivered(cs) == [i \in DOMAIN CallsOf(cs, "invalidateRect") |->
                     CallsOf(cs, "invalidateRect")[i].rect]
DeliveredTo(cs) == {c.on : c \in Range(CallsOf(cs, "invalidateRect"))}
\* The pixels of a set of rectangles.
CellsOfAll(rects) == UNION {Cells(r) : r \in rects}
\* The smallest rectangle enclosing the non-empty rectangles of a set; the
\* all-zero rectangle when there is none.
Enclosing(rects) ==
    LET ne == {r \in rects : r.w > 0 /\ r.h > 0}
    IN IF ne = {} THEN ZeroRect
       ELSE LET l == SetMin({r.x : r \in ne})
                t == SetMin({r.y : r \in ne})
                rt == SetMax({r.x + r.w : r \in ne})
                b == SetMax({r.y + r.h : r \in ne})
            IN R(l, t, rt - l, b - t)
Locked == ~m_baseLayerUpdate
NonEmpty(r) == r.w > 0 /\ r.h > 0
SeqOf(rects) == SelectSeq(rects, LAMBDA r : r.w > 0 /\ r.h > 0)

\* C1: while the gate is locked, a setBaseLayer call without the
\* first-layout flag changes m_baseLayer (to the layer supplied) and never
\* m_currentBaseLayer; m_baseLayer is changed by setBaseLayer only, so it is
\* the layer supplied most recently; and an unlockBaseLayerUpdate of a locked
\* gate makes m_currentBaseLayer that layer.
C1_LockedKeepsCurrent ==
    [][/\ (last'.op = "setBaseLayer" /\ Locked /\ ~last'.first)
            => /\ m_currentBaseLayer' = m_currentBaseLayer
               /\ m_baseLayer' = last'.layer
               /\ ~m_baseLayerUpdate'
       /\ (last'.op = "setBaseLayer") => m_baseLayer' = last'.layer
       /\ (last'.op # "setBaseLayer") => m_baseLayer' = m_baseLayer
       /\ (last'.op = "unlockBaseLayerUpdate" /\ Locked)
            => /\ m_currentBaseLayer' = m_baseLayer
               /\ m_baseLayerUpdate']_vars

\* An unlock promoted a layer supplied after another one while locked.
C1_Witness ==
    /\ last.op = "unlockBaseLayerUpdate"
    /\ last.locked
    /\ last.n = 4
    /\ m_currentBaseLayer = "L2"
    /\ last.cur = NULL

C3_FirstLayoutLocks ==
    [][(last'.op = "setBaseLayer" /\ last'.first)
          => /\ ~m_baseLayerUpdate'
             /\ m_baseLayer' = last'.layer
             /\ m_currentBaseLayer' = m_currentBaseLayer]_vars

\* C3 as amended: a setBaseLayer with the first-layout flag leaves the gate
\* unlocked (m_baseLayerUpdate true) from either gate state, and the layer
\* supplied is both m_baseLayer and m_currentBaseLayer when it returns.
C3_FirstLayoutUnlocks ==
    [][(last'.op = "setBaseLayer" /\ last'.first)
          => /\ m_baseLayerUpdate'
             /\ m_baseLayer' = last'.layer
             /\ m_currentBaseLayer' = last'.layer]_vars

\* A first-layout setBaseLayer found the gate locked and another layer current.
C3_Witness ==
    /\ last.op = "setBaseLayer"
    /\ last.first
    /\ last.locked
    /\ last.layer # NULL
    /\ last.cur # last.layer
    /\ m_baseLayerUpdate
    /\ m_currentBaseLayer = last.layer

\* C4: a setBaseLayer with the first-layout flag discards the textures of
\* page A and of page B, leaves m_invalidateRegion empty (nothing deferred
\* before the call is left for a later unlock to flush) and leaves
\* m_displayRings false.
C4_FirstLayoutResets ==
    [][(last'.op = "setBaseLayer" /\ last'.first)
          => /\ {"A", "B"} \subseteq Range(Discarded(calls'))
             /\ m_invalidateRegion' = {}
             /\ deferred' = {}
             /\ ~m_displayRings']_vars

\* A first-layout setBaseLayer found a pending region and the rings displayed.
C4_Witness ==
    /\ last.op = "setBaseLayer"
    /\ last.first
    /\ last.pending
    /\ last.rings
    /\ m_invalidateRegion = {}
    /\ ~m_displayRings

\* C5: a setExtra while the gate is locked changes nothing of the object and
\* of the layers' extra pictures, and calls no collaborator.
C5_LockedSetExtraNoOp ==
    [][(last'.op = "setExtra" /\ Locked)
          => /\ This' = This
             /\ calls' = <<>>]_vars

\* A setExtra with a new non-empty rectangle and a new picture was made
\* while the gate was locked.
C5_Witness ==
    /\ last.op = "setExtra"
    /\ last.locked
    /\ NonEmpty(last.rect)
    /\ last.rect # m_lastInval
    /\ extra[last.layer] = NoPicture

\* C6: a setExtra while unlocked, with the rectangle of the previous setExtra
\* and allowSame false, delivers nothing and leaves m_frameworkInval, the
\* picture counter and m_displayRings as they were; any other one delivers
\* the new rectangle, then the previous one (each if non-empty) to the front
\* page, leaves m_frameworkInval the smallest rectangle enclosing its value
\* before and both, m_lastInval the new rectangle and m_displayRings false.
C6_SetExtraUnlocked ==
    [][(last'.op = "setExtra" /\ ~Locked)
          => IF last'.rect = m_lastInval /\ ~last'.allowSame
             THEN /\ Delivered(calls') = <<>>
                  /\ m_frameworkInval' = m_frameworkInval
                  /\ m_currentPictureCounter' = m_currentPictureCounter
                  /\ m_displayRings' = m_displayRings
             ELSE /\ Delivered(calls') = SeqOf(<<last'.rect, m_lastInval>>)
                  /\ DeliveredTo(calls') \subseteq {frontPage(This)}
                  /\ m_frameworkInval' =
                         Enclosing({m_frameworkInval, last'.rect, m_lastInval})
                  /\ m_lastInval' = last'.rect
                  /\ ~m_displayRings']_vars

\* A setExtra delivered a new rectangle and a different previous one.
C6_Witness ==
    /\ last.op = "setExtra"
    /\ ~last.locked
    /\ Len(Delivered(calls)) = 2
    /\ Delivered(calls)[1] = last.rect
    /\ Delivered(calls)[2] # last.rect

\* Both cases of the unchanged rectangle: allowSame false left the union
\* alone, seen after a first setExtra made it non-empty.
C6_WitnessSame ==
    /\ last.op = "setExtra"
    /\ ~last.locked
    /\ ~last.allowSame
    /\ NonEmpty(last.rect)
    /\ last.rect = m_lastInval
    /\ Delivered(calls) = <<>>

\* C7: one page is front and the other back at every moment; a swapPages
\* exchanges them and discards textures once, on the page that is back
\* after it.
C7_SwapPages ==
    /\ [](/\ frontPage(This) # backPage(This)
          /\ sibling(frontPage(This)) = backPage(This)
          /\ {frontPage(This), backPage(This)} = Pages)
    /\ [][(last'.op = "swapPages")
             => /\ frontPage(This') = backPage(This)
                /\ backPage(This') = frontPage(This)
                /\ Discarded(calls') = <<backPage(This')>>]_vars

\* Two swapPages in a row: page A is front again, and was just discarded as
\* the back page of the first.
C7_Witness ==
    /\ last.op = "swapPages"
    /\ last.n >= 2
    /\ m_usePageA
    /\ Discarded(calls) = <<"B">>

\* C8: a setViewport with the stored viewport and the zoom manager's future
\* scale changes neither the viewport, the tile bounds, the texture budget
\* nor the scroll directions, and calls no collaborator.
C8_SetViewportSame ==
    [][(/\ last'.op = "setViewport"
        /\ last'.vp = m_viewport
        /\ last'.scale = futureScale)
          => /\ UNCHANGED <<m_viewport, m_viewportTileBounds, maxTextureCount,
                            m_goingDown, m_goingLeft>>
             /\ calls' = <<>>]_vars

\* A setViewport repeated the viewport set before, at the future scale.
C8_Witness ==
    /\ last.op = "setViewport"
    /\ last.vp = m_viewport
    /\ last.vp = V2
    /\ last.scale = futureScale
    /\ maxTextureCount > 0
    /\ calls = <<>>

\* C9: while unlocked, inval of a non-empty rectangle into an empty union
\* leaves that rectangle; inval of two leaves the smallest rectangle
\* enclosing the union before and both, in either order; no handler but
\* drawGL leaves a union that does not contain the one before, and drawGL
\* leaves it as it was or resets it to the all-zero rectangle.
TestRects == {RA, RB, RC, RD}
C9_UnionMerge ==
    /\ [](~Locked =>
            \A r1 \in TestRects, r2 \in TestRects :
                LET a == inval(This, r1)
                    ab == inval(a, r2)
                    ba == inval(inval(This, r2), r1)
                IN /\ isEmpty(m_frameworkInval) => a.m_frameworkInval = r1
                   /\ ab.m_frameworkInval = Enclosing({m_frameworkInval, r1, r2})
                   /\ ab.m_frameworkInval = ba.m_frameworkInval
                   /\ Cells(m_frameworkInval) \subseteq Cells(a.m_frameworkInval))
    /\ [][IF last'.op # "drawGL"
          THEN Cells(m_frameworkInval) \subseteq Cells(m_frameworkInval')
          ELSE m_frameworkInval' \in {m_frameworkInval, ZeroRect}]_vars

\* Two rectangles were merged into a union that is neither of them.
C9_Witness ==
    /\ m_baseLayerUpdate
    /\ last.op = "setExtra"
    /\ Len(Delivered(calls)) = 2
    /\ m_frameworkInval = Enclosing(Range(Delivered(calls)))
    /\ m_frameworkInval \notin Range(Delivered(calls))

\* C10: a drawGL without a current base layer returns false, leaves both
\* dirty unions, the previously used root, the prefetch expansion, the
\* background colour, *invalRect and every reference count as they were,
\* calls neither the transfer queue nor gatherLayerTextures nor
\* swapLayersTextures, and releases the reference it took on m_baseLayer.
C10_DrawWithoutBaseLayer ==
    [][(last'.op = "drawGL" /\ m_currentBaseLayer = NULL)
          => /\ ~last'.ret
             /\ UNCHANGED <<m_frameworkInval, m_frameworkLayersInval,
                            m_previouslyUsedRoot, m_expandedTileBoundsX,
                            m_expandedTileBoundsY, m_backgroundColor,
                            outInvalRect, refCount, m_baseLayer,
                            m_currentBaseLayer, crashed>>
             /\ \A c \in Range(calls') :
                    c.fn \notin {"updateDirtyBaseTiles", "gatherLayerTextures",
                                 "swapLayersTextures", "glClear", "drawGL"}
             /\ Len(CallsOf(calls', "ref")) = Len(CallsOf(calls', "unref"))
             /\ (m_baseLayer # NULL) =>
                    /\ [i \in DOMAIN CallsOf(calls', "ref") |->
                           CallsOf(calls', "ref")[i].on] = <<m_baseLayer>>
                    /\ CallsOf(calls', "unref")[1].on = m_baseLayer]_vars

\* A drawGL found no current layer while a latest one was held.
C10_Witness ==
    /\ last.op = "drawGL"
    /\ ~last.ret
    /\ m_currentBaseLayer = NULL
    /\ m_baseLayer # NULL
    /\ Len(CallsOf(calls, "unref")) = 1

\* ------------------------------------------------------- claims on a frame
\* A drawGL that found a current base layer and ran to its end.
FrameDone == last'.op = "drawGL" /\ m_currentBaseLayer # NULL /\ ~crashed'
\* The position of the first call of a function among a handler's calls
\* (0 when it made none), and of the scale warning with a given text.
Idx(cs, fn) ==
    LET I == {i \in DOMAIN cs : cs[i].fn = fn}
    IN IF I = {} THEN 0 ELSE SetMin(I)
IdxLog(cs, text) ==
    LET I == {i \in DOMAIN cs : cs[i].fn = "XLOGC" /\ cs[i].a = text}
    IN IF I = {} THEN 0 ELSE SetMin(I)
\* The composited root of a frame: the one the base layer was drawn with.
FrameRoot(cs) == CallsOf(cs, "drawGL")[1].a

\* C11: a completed frame calls swapLayersTextures(old, new) exactly once
\* when its composited root is not the previously used root the frame before
\* left, with that root as old and its own as new, and not at all when it is
\* the same; after the frame the previously used root is the frame's
\* composited root, and no other method changes it.
C11_RootSwapNotifiedOnce ==
    [][/\ FrameDone =>
            LET root == FrameRoot(calls')
                swaps == CallsOf(calls', "swapLayersTextures")
            IN /\ Len(swaps) = IF root # m_previouslyUsedRoot THEN 1 ELSE 0
               /\ \A i \in DOMAIN swaps :
                     swaps[i].a = m_previouslyUsedRoot /\ swaps[i].b = root
               /\ m_previouslyUsedRoot' = root
       /\ last'.op # "drawGL" =>
            /\ m_previouslyUsedRoot' = m_previouslyUsedRoot
            /\ CallsOf(calls', "swapLayersTextures") = <<>>]_vars

\* A frame drew without a composited root after a frame that had one, and
\* notified the change once.
C11_Witness ==
    /\ last.op = "drawGL"
    /\ ~crashed
    /\ Len(CallsOf(calls, "swapLayersTextures")) = 1
    /\ CallsOf(calls, "swapLayersTextures")[1].a = "R2"
    /\ CallsOf(calls, "swapLayersTextures")[1].b = NULL
    /\ m_previouslyUsedRoot = NULL

\* A frame with the same composited root as the frame before notified nothing.
C11_WitnessSame ==
    /\ last.op = "drawGL"
    /\ ~crashed
    /\ CallsOf(calls, "drawGL") # <<>>
    /\ FrameRoot(calls) = "R2"
    /\ CallsOf(calls, "swapLayersTextures") = <<>>

\* C12: in a drawGL with a current base layer, a scale below 0.1 or above 10
\* is logged before updateDirtyBaseTiles, which is then called, and the
\* process aborts at the check after it, before any texture is gathered or
\* drawn; a scale within [0.1, 10] is not logged and never aborts; nothing
\* else aborts the process, and drawGL returns a boolean only.
C12_ScaleAbortsAfterUpdate ==
    [][/\ (last'.op = "drawGL" /\ m_currentBaseLayer # NULL) =>
            LET out == last'.scale < 10 \/ last'.scale > 1000
            IN /\ crashed' = out
               /\ last'.ret \in BOOLEAN
               /\ out =>
                    /\ Len(CallsOf(calls', "XLOGC")) = 2
                    /\ 0 < IdxLog(calls', "before update")
                    /\ IdxLog(calls', "before update") < Idx(calls', "updateDirtyBaseTiles")
                    /\ Idx(calls', "updateDirtyBaseTiles") < IdxLog(calls', "after update")
                    /\ IdxLog(calls', "after update") = Len(calls')
                    /\ Idx(calls', "gatherLayerTextures") = 0
                    /\ Idx(calls', "drawGL") = 0
               /\ ~out => CallsOf(calls', "XLOGC") = <<>>
       /\ (last'.op # "drawGL" \/ m_currentBaseLayer = NULL) => ~crashed']_vars

\* A frame at scale 50 logged, flushed the transfer queue and aborted.
C12_Witness ==
    /\ last.op = "drawGL"
    /\ last.scale = 5000
    /\ crashed
    /\ Idx(calls, "updateDirtyBaseTiles") > 0
    /\ Len(CallsOf(calls, "XLOGC")) = 2

\* A frame at scale 10, the upper bound, ran to its end.
C12_WitnessBound ==
    /\ last.op = "drawGL"
    /\ last.scale = 1000
    /\ ~crashed
    /\ Idx(calls, "paintExtras") > 0

\* C13: a completed frame whose draw returned true while m_frameworkInval
\* was empty writes (0,0,0,0) to *invalRect and returns true.
C13_EmptyUnionFullScreen ==
    [][(FrameDone /\ last'.drawRet /\ ~NonEmpty(m_frameworkInval))
          => /\ outInvalRect' = ZeroRect
             /\ last'.ret]_vars

\* A frame whose draw returned true and dirtied a layer area, with an empty
\* base union, reported the full screen.
C13_Witness ==
    /\ last.op = "drawGL"
    /\ last.cur # NULL
    /\ last.drawRet
    /\ ~last.dirtyBase
    /\ NonEmpty(last.dirty)
    /\ NonEmpty(m_frameworkLayersInval)
    /\ outInvalRect = ZeroRect
    /\ last.ret

\* The region a frame computes from the base union it found: the union in
\* screen coordinates, grown by 1, united with the layers' dirty area.
FrameRegion ==
    unite(screenInval([m_viewport |-> last'.vp], m_frameworkInval, last'.scale),
          m_frameworkLayersInval')

\* C14 as claimed: a completed frame that returns true and found a non-empty
\* m_frameworkInval writes to *invalRect the region computed when that region
\* intersects the clip rectangle, and (0,0,0,0) when it does not.
C14_ReportAgainstClip ==
    [][(FrameDone /\ last'.ret /\ NonEmpty(m_frameworkInval))
          => outInvalRect' = IF intersects(FrameRegion, last'.clip)
                             THEN FrameRegion ELSE ZeroRect]_vars

\* C14 as amended: a completed frame that returns true, found a non-empty
\* m_frameworkInval and no inverted-screen switch pending writes to
\* *invalRect the region computed when that region intersects the frame
\* rectangle (the argument rect), and (0,0,0,0) when it does not.
C14_ReportAgainstViewRect ==
    [][(FrameDone /\ last'.ret /\ NonEmpty(m_frameworkInval)
           /\ ~invertedScreenSwitch)
          => outInvalRect' = IF intersects(FrameRegion, last'.rect)
                             THEN FrameRegion ELSE ZeroRect]_vars

\* A frame reported a region, made of the base union and of a layer area,
\* that lies inside its frame rectangle and outside its clip rectangle.
C14_Witness ==
    /\ last.op = "drawGL"
    /\ last.cur # NULL
    /\ last.ret
    /\ last.dirtyBase
    /\ NonEmpty(last.dirty)
    /\ outInvalRect # ZeroRect
    /\ outInvalRect # UnwrittenRect
    /\ intersects(outInvalRect, last.rect)
    /\ ~intersects(outInvalRect, last.clip)

\* A frame computed a region outside its frame rectangle and reported the
\* full screen.
C14_WitnessOffscreen ==
    /\ last.op = "drawGL"
    /\ last.cur # NULL
    /\ last.ret
    /\ last.dirtyBase
    /\ last.rect = R(10, 10, 300, 300)
    /\ ~NonEmpty(last.dirty)
    /\ last.drawRet
    /\ outInvalRect = ZeroRect

\* C15: a completed frame returns true exactly when its draw returned true
\* or an inverted-screen switch was pending; when it returns false
\* m_frameworkInval is (0,0,0,0) afterwards and *invalRect is not written;
\* when it returns true m_frameworkInval is unchanged; in both cases
\* m_frameworkLayersInval holds nothing from before the frame: it is the
\* area the frame's layers dirtied, grown by 8, or (0,0,0,0).
C15_BaseUnionResetIffClean ==
    [][FrameDone =>
          /\ last'.ret = (last'.drawRet \/ invertedScreenSwitch)
          /\ ~last'.ret => /\ m_frameworkInval' = ZeroRect
                           /\ outInvalRect' = outInvalRect
          /\ last'.ret => m_frameworkInval' = m_frameworkInval
          /\ m_frameworkLayersInval' =
                IF NonEmpty(last'.dirty)
                THEN R(last'.dirty.x - 8, last'.dirty.y - 8,
                       last'.dirty.w + 16, last'.dirty.h + 16)
                ELSE ZeroRect]_vars

\* A frame that reported no change found both unions non-empty and left
\* both (0,0,0,0).
C15_Witness ==
    /\ last.op = "drawGL"
    /\ last.cur # NULL
    /\ ~crashed
    /\ ~last.ret
    /\ last.dirtyBase
    /\ last.dirtyLayers
    /\ m_frameworkInval = ZeroRect
    /\ m_frameworkLayersInval = ZeroRect

\* C20 as claimed: in a completed frame whose composited root changed,
\* updateDirtyBaseTiles is called before swapLayersTextures and
\* swapLayersTextures before gatherLayerTextures; swapLayersTextures is given
\* the previously used root as it was before the frame; and the framebuffer
\* is cleared with the background colour of the layer drawn.
C20_SwapBeforeGather ==
    [][(FrameDone /\ CallsOf(calls', "swapLayersTextures") # <<>>)
          => /\ 0 < Idx(calls', "updateDirtyBaseTiles")
             /\ Idx(calls', "updateDirtyBaseTiles") < Idx(calls', "swapLayersTextures")
             /\ Idx(calls', "swapLayersTextures") < Idx(calls', "gatherLayerTextures")
             /\ CallsOf(calls', "swapLayersTextures")[1].a = m_previouslyUsedRoot
             /\ CallsOf(calls', "glClear")[1].a = getBackgroundColor(m_currentBaseLayer)]_vars

\* What the code does in such a frame: the textures are gathered after the
\* transfer queue is flushed and before swapLayersTextures is called.
C20_GatherBeforeSwap ==
    [][(FrameDone /\ CallsOf(calls', "swapLayersTextures") # <<>>)
          => /\ 0 < Idx(calls', "updateDirtyBaseTiles")
             /\ Idx(calls', "updateDirtyBaseTiles") < Idx(calls', "gatherLayerTextures")
             /\ Idx(calls', "gatherLayerTextures") < Idx(calls', "swapLayersTextures")
             /\ CallsOf(calls', "swapLayersTextures")[1].a = m_previouslyUsedRoot
             /\ CallsOf(calls', "glClear")[1].a = getBackgroundColor(m_currentBaseLayer)]_vars

\* --------------------------------------------------------------------- C16
\* The invalidateRect calls of a step
Invalidations(cs) == {c \in Range(cs) : c.fn = "invalidateRect"}

\* C16: every tile invalidation is applied to the page that is front at the
\* moment it is applied and only while the gate is UNLOCKED, also when
\* swapPages runs on another thread meanwhile; an invalidation that finds the
\* gate LOCKED reaches no tile page and changes neither the base dirty union
\* nor the generation counter.
C16_InvalOnlyFrontUnlocked ==
    [][/\ \A c \in Invalidations(calls') :
            /\ c.on = frontPage([m_usePageA |-> m_usePageA'])
            /\ m_baseLayerUpdate'
       /\ (pc["ui"] = "inval_test" /\ pc'["ui"] # "inval_test" /\ ~m_baseLayerUpdate)
            => /\ pc'["ui"] = "inval_profile"
               /\ Invalidations(calls') = {}
               /\ m_frameworkInval' = m_frameworkInval
               /\ m_currentPictureCounter' = m_currentPictureCounter]_vars

\* --------------------------------------------------------------------- C17
\* C17: while swapPages discards the textures of the vacated page the flip
\* is already visible, the tile-page lock being free for a concurrent
\* frontPage()/backPage() caller to read the new assignment; and no caller of
\* frontPage() obtains a page whose eviction is in progress.
C17_EvictionAfterVisibleFlip ==
    /\ [](evicting # {} => owner["m_tiledPageLock"] = NULL)
    /\ [][(pc["tex"] = "fp_read" /\ pc'["tex"] = "fp_use")
            => local'["tex"].p \notin evicting']_vars

\* --------------------------------------------------------------------- C18
\* Where a thread is about to take a mutex, and where it is about to call,
\* or is inside, rasterization or GPU work (discardTextures, drawCanvas, the
\* drawing of the frame).
AcquireLabels ==
    {"sb_lock", "ul_lock", "se_lock", "sr_lock", "inval_front_lock", "dg_lock", "sw_lock",
     "pb_lock", "pb_button_lock", "fp_lock"}
WorkLabels == {"sb_discard", "sw_discard", "sw_discarding", "pb_draw", "dg_rest"}

\* C18: no thread holds one of the three mutexes while it acquires another
\* or while it calls rasterization or GPU work.
C18_NoLockHeldAcrossCalls ==
    \A t \in Threads : pc[t] \in AcquireLabels \cup WorkLabels => HeldBy(t) = {}

\* --------------------------------------------------------------------- C19
\* Where the next step of a thread writes m_baseLayerUpdate, m_baseLayer or
\* m_currentBaseLayer, or reads m_currentBaseLayer (lockBaseLayerUpdate, whose
\* code is in GLWebViewState.h, left aside).
GateAccessLabels ==
    {"ul_set", "sb_store", "ul_promote", "dg_acquire", "dg_width", "dg_width_use",
     "dg_height", "dg_height_use", "pb_test", "pb_draw"}

\* C19: every write of the gate flag and of the two snapshot pointers, and
\* every read of the current pointer, is made by a thread holding
\* m_baseLayerLock; and the content size drawGL uses for the prefetch
\* decision is that of the snapshot it retained under the lock.
C19_GateAccessUnderBaseLock ==
    /\ \A t \in Threads : pc[t] \in GateAccessLabels => owner["m_baseLayerLock"] = t
    /\ pc["gl"] = "dg_rest"
         => /\ local["gl"].widthOf = local["gl"].baseLayer
            /\ local["gl"].heightOf = local["gl"].baseLayer

\* --------------------------------------------------------------------- C21
\* The number of inval calls a handler made before its i-th collaborator
\* call (inval ends with the profiler's nextInval, line 266).
InvalsBefore(cs, i) == Cardinality({j \in 1..(i - 1) : cs[j].fn = "nextInval"})

\* C21: m_currentPictureCounter never decreases; each inval made while the
\* gate is UNLOCKED increases it by exactly one, and one made while LOCKED
\* not at all; the k-th inval of a handler, when it delivers its rectangle,
\* passes the counter's value before the handler plus k, so a delivered
\* generation is greater than the counter was before and greater than every
\* generation delivered earlier; swapPages leaves the counter as it is, so
\* that what is delivered after a swap is greater than what was before it.
C21_GenerationIncreases ==
    [][/\ m_currentPictureCounter' >= m_currentPictureCounter
       /\ m_currentPictureCounter' - m_currentPictureCounter =
             IF m_baseLayerUpdate' THEN Len(CallsOf(calls', "nextInval")) ELSE 0
       /\ \A i \in DOMAIN calls' :
             calls'[i].fn = "invalidateRect"
                => /\ calls'[i].n = m_currentPictureCounter + InvalsBefore(calls', i) + 1
                   /\ calls'[i].n > m_currentPictureCounter
                   /\ calls'[i].n <= m_currentPictureCounter'
                   /\ \A j \in 1..(i - 1) :
                         calls'[j].fn = "invalidateRect" => calls'[j].n < calls'[i].n
       /\ last'.op = "swapPages"
             => m_currentPictureCounter' = m_currentPictureCounter]_vars

\* A setExtra that delivered two invalidations after earlier ones, with
\* generations 2 and 3.
C21_Witness ==
    /\ last.op = "setExtra"
    /\ Len(CallsOf(calls, "invalidateRect")) = 2
    /\ CallsOf(calls, "invalidateRect")[1].n = 2
    /\ CallsOf(calls, "invalidateRect")[2].n = 3
    /\ m_currentPictureCounter = 3

\* A swapPages after one delivered invalidation: the counter is kept.
C21_WitnessSwap == last.op = "swapPages" /\ m_currentPictureCounter = 2

\* --------------------------------------------------------------------- C22
\* How many of the two layer pointers designate a layer.
Designating(l, latest, current) ==
    (IF latest = l THEN 1 ELSE 0) + (IF current = l THEN 1 ELSE 0)
\* The references held on an object after the first k collaborator calls of
\* a handler, given those held before the handler.
HeldAfter(before, cs, o, k) ==
    before[o] + Cardinality({j \in 1..k : cs[j].fn = "ref" /\ cs[j].on = o})
              - Cardinality({j \in 1..k : cs[j].fn = "unref" /\ cs[j].on = o})
\* An object some pointer designates (some pointer, for a root: the
\* previously used root).
Designated(o, latest, current, root) == o \in {latest, current, root}

\* C22: between calls, unless the process aborted, the references held on
\* each layer are as many as the pointers m_baseLayer and m_currentBaseLayer
\* that designate it, and those on each composited root 1 if it is
\* m_previouslyUsedRoot and 0 otherwise; a drawGL that returns has released
\* on every layer as many references as it took, on the early return as on
\* the normal path; and no release during a handler leaves the references
\* held on an object below zero, nor below one for an object that a pointer
\* designates before and after the handler (the same layer supplied twice).
C22_ReferencesBalanced ==
    /\ [](~crashed =>
            /\ \A l \in Layers :
                  refCount[l] = Designating(l, m_baseLayer, m_currentBaseLayer)
            /\ \A r \in Roots :
                  refCount[r] = IF m_previouslyUsedRoot = r THEN 1 ELSE 0)
    /\ [][(last'.op = "drawGL" /\ ~crashed')
            => \A l \in Layers :
                  /\ HeldAfter(refCount, calls', l, Len(calls')) = refCount[l]
                  /\ refCount'[l] = refCount[l]
                  /\ last'.cur # NULL /\ l = last'.cur
                        => \E j \in DOMAIN calls' :
                              calls'[j].fn = "ref" /\ calls'[j].on = l]_vars
    /\ [][\A k \in DOMAIN calls' :
            calls'[k].fn = "unref"
               => /\ HeldAfter(refCount, calls', calls'[k].on, k) >= 0
                  /\ (/\ Designated(calls'[k].on, m_baseLayer, m_currentBaseLayer,
                                     m_previouslyUsedRoot)
                      /\ Designated(calls'[k].on, m_baseLayer', m_currentBaseLayer',
                                     m_previouslyUsedRoot'))
                        => HeldAfter(refCount, calls', calls'[k].on, k) >= 1]_vars

\* The layer that is both latest and current is supplied again.
C22_Witness ==
    /\ last.op = "setBaseLayer"
    /\ last.layer = "L1"
    /\ last.cur = "L1"
    /\ ~last.locked
    /\ ~last.first
    /\ m_baseLayer = "L1"
    /\ refCount["L1"] = 2
    /\ \E j \in DOMAIN calls : calls[j].fn = "unref" /\ calls[j].on = "L1"

\* A drawGL that returned early, with a latest layer and no current one.
C22_WitnessEarlyReturn ==
    /\ last.op = "drawGL"
    /\ last.cur = NULL
    /\ m_baseLayer # NULL
    /\ \E j \in DOMAIN calls : calls[j].fn = "unref" /\ calls[j].on = m_baseLayer

\* A drawGL that drew with a composited root after one without.
C22_WitnessRoot ==
    /\ last.op = "drawGL"
    /\ m_previouslyUsedRoot = "R2"
    /\ refCount["R2"] = 1
    /\ \E j \in DOMAIN calls : calls[j].fn = "swapLayersTextures"

\* --------------------------------------------------------------------- C23
\* The mutex a thread is about to take, and the thread it then waits for.
Wanted(t) ==
    IF pc[t] \in {"inval_front_lock", "sw_lock", "fp_lock"} THEN "m_tiledPageLock"
    ELSE IF pc[t] = "pb_button_lock" THEN "m_globalButtonMutex"
    ELSE "m_baseLayerLock"
WaitsFor(t) == IF pc[t] \in AcquireLabels THEN owner[Wanted(t)] ELSE NULL
\* No thread waits for itself, directly or through one or two others.
NoWaitCycle ==
    \A t \in Threads :
       /\ WaitsFor(t) # t
       /\ WaitsFor(t) # NULL => WaitsFor(WaitsFor(t)) # t
       /\ (WaitsFor(t) # NULL /\ WaitsFor(WaitsFor(t)) # NULL)
             => WaitsFor(WaitsFor(WaitsFor(t))) # t
\* No thread takes a mutex it holds.
NoReacquire == \A t \in Threads : pc[t] \in AcquireLabels => Wanted(t) \notin HeldBy(t)

====
